---- MODULE Spec2Model ----
(***************************************************************************)
(* Model of sml_to_mqtt.py: the SML frame reader (SmlClient._read_message), *)
(* the field decoder (SmlClient._get_value), the meter state tracker        *)
(* (SmlClient.read) and the polling loop of __main__ that publishes the     *)
(* snapshots through MqttDevice.                                            *)
(*                                                                          *)
(* Bytes are integers 0..255, byte strings are sequences of bytes.  Python  *)
(* indexes from 0, TLA+ sequences from 1: msg[o] in the source is           *)
(* msg[o + 1] here.                                                         *)
(***************************************************************************)
EXTENDS Integers, Sequences, FiniteSets, TLC

VARIABLES
    stream,              \* bytes the serial line delivers to the next transport reads
    offsets,             \* self._offsets: entity -> byte offset
    max_update_interval, \* self._max_update_interval
    last_values,         \* contents of the dict object self._last_values
    last_time_updated,   \* self._last_time_updated
    now,                 \* time.time()
    pc,                  \* position of the polling loop of __main__
    states,              \* the loop's variable `states`: a reference to a dict object, or NoneRef
    objs,                \* contents of the dict objects that deepcopy allocated
    mqtt_values,         \* MqttDevice._entities[entity]["value"]
    err,                 \* history: outcome of the last _read_message call
    msg,                 \* history: buffer the last _read_message call returned (<<>> if it raised)
    absent,              \* history: whether the last read() returned at line 119 (a decode was None)
    readTime,            \* history: time.time() at the last call of read()
    stable,              \* history: every read() so far got a frame that decoded to the same values
    call,                \* history: the state read() was called in, kept until the cycle ends
    ser_open,            \* self._ser.is_open: the serial handle is held
    decode               \* a direct call of _get_value: its arguments and what it returned

vars == <<stream, offsets, max_update_interval, last_values, last_time_updated, now,
          pc, states, objs, mqtt_values, err, msg, absent, readTime, stable, call,
          ser_open, decode>>

----------------------------------------------------------------------------
(* Bounds of the model *)

\* time.time() runs over 0..MaxTime
MaxTime == 3
\* one polling cycle (the sleep plus the blocking reads) lasts 0..MaxSleep
MaxSleep == 2
\* max_update_interval is configured in 0..MaxInterval
MaxInterval == 1
\* the serial line buffers at most MaxStream bytes that were not read yet
MaxStream == 20
\* garbage between two escape sequences is at most MaxGarbage bytes long
MaxGarbage == 4
\* a free-form payload is at most MaxPayload bytes long
MaxPayload == 1
\* a resynchronisation stream holds at most MaxSegs candidate segments
MaxSegs == 7

----------------------------------------------------------------------------
(* Framing constants of SmlClient *)

START_MESSAGE == <<1, 1, 1, 1>>
ESCAPE_SEQUENCE == <<27, 27, 27, 27>>
END_MESSAGE == <<26>>
\* mutant: one read attempt more than the source allows
SixReads == 5 + 1
MAX_READ == 5

----------------------------------------------------------------------------
(* Byte strings *)

startswith(s, p) == Len(s) >= Len(p) /\ SubSeq(s, 1, Len(p)) = p

endswith(s, p) == Len(s) >= Len(p) /\ SubSeq(s, Len(s) - Len(p) + 1, Len(s)) = p

\* the positions at which an occurrence of term ends in s
EndsOf(s, term) == {i \in Len(term)..Len(s) : SubSeq(s, i - Len(term) + 1, i) = term}

Min(S) == CHOOSE x \in S : \A y \in S : x <= y

\* In a stream, Timeout is not a byte: it marks a silence of the line that
\* lasts as long as the timeout the port was opened with.  The transport read
\* that is waiting then returns what it has; the bytes after the mark arrive
\* for the reads that follow.  The end of the stream is such a silence too.
Timeout == -1

\* the bytes that arrive before the line falls silent
BeforeTimeout(s) ==
    IF \E i \in 1..Len(s) : s[i] = Timeout
    THEN SubSeq(s, 1, Min({i \in 1..Len(s) : s[i] = Timeout}) - 1)
    ELSE s

\* serial.Serial.read_until(term): the bytes up to and including the first
\* occurrence of term; when term does not come, the read times out and returns
\* the bytes that did arrive.
read_until(s, term) ==
    LET arrived == BeforeTimeout(s)
    IN IF EndsOf(arrived, term) = {}
       THEN [data |-> arrived, rest |-> SubSeq(s, Len(arrived) + 2, Len(s))]
       ELSE LET i == Min(EndsOf(arrived, term))
            IN [data |-> SubSeq(s, 1, i), rest |-> SubSeq(s, i + 1, Len(s))]

\* mutant: a single byte is read whatever n is
ReadOneByte(s, n) ==
    LET arrived == BeforeTimeout(s)
    IN IF Len(arrived) < 1
       THEN [data |-> arrived, rest |-> SubSeq(s, Len(arrived) + 2, Len(s))]
       ELSE [data |-> SubSeq(s, 1, 1), rest |-> SubSeq(s, 2, Len(s))]

\* serial.Serial.read(n): n bytes, or fewer when the read times out
read_n(s, n) ==
    LET arrived == BeforeTimeout(s)
    IN IF Len(arrived) < n
       THEN [data |-> arrived, rest |-> SubSeq(s, Len(arrived) + 2, Len(s))]
       ELSE [data |-> SubSeq(s, 1, n), rest |-> SubSeq(s, n + 1, Len(s))]

----------------------------------------------------------------------------
(* SmlClient._read_message *)

\* mutant: a single candidate is read, the loop does not resynchronise
SearchStartOnce(s, n, k) ==
    LET r == read_until(s, ESCAPE_SEQUENCE)
    IN IF startswith(r.data, START_MESSAGE)
       THEN [found |-> TRUE, t_msg |-> r.data, rest |-> r.rest, reads |-> k + 1]
       ELSE [found |-> FALSE, t_msg |-> <<>>, rest |-> r.rest, reads |-> k + 1]

\* the for loop of lines 68..73: up to n more reads of a candidate, the first
\* that starts with START_MESSAGE ends the loop; k counts the transport reads
RECURSIVE SearchStart(_, _, _)
SearchStart(s, n, k) ==
    IF n = 0
    THEN [found |-> FALSE, t_msg |-> <<>>, rest |-> s, reads |-> k]
    ELSE LET r == read_until(s, ESCAPE_SEQUENCE)
         IN IF startswith(r.data, START_MESSAGE)
            THEN [found |-> TRUE, t_msg |-> r.data, rest |-> r.rest, reads |-> k + 1]
            ELSE SearchStart(r.rest, n - 1, k + 1)

\* err is "none" when t_msg is returned, and else names the ValueError raised
_read_message(s) ==
    LET t_esc == read_until(s, ESCAPE_SEQUENCE)
    IN IF ~endswith(t_esc.data, ESCAPE_SEQUENCE)
       THEN [err |-> "ESCAPE", msg |-> <<>>, rest |-> t_esc.rest, reads |-> 1]
       ELSE LET c == SearchStart(t_esc.rest, MAX_READ, 1)
            IN IF ~c.found
               THEN [err |-> "START", msg |-> <<>>, rest |-> c.rest, reads |-> c.reads]
               ELSE LET t_end == read_n(c.rest, 4)
                    IN IF ~startswith(t_end.data, END_MESSAGE)
                       THEN [err |-> "END", msg |-> <<>>, rest |-> t_end.rest,
                             reads |-> c.reads + 1]
                       ELSE [err |-> "none", msg |-> c.t_msg, rest |-> t_end.rest,
                             reads |-> c.reads + 1]

----------------------------------------------------------------------------
(* SmlClient._get_value *)

RECURSIVE Pow256(_)
Pow256(n) == IF n = 0 THEN 1 ELSE 256 * Pow256(n - 1)

RECURSIVE BigEndian(_)
BigEndian(b) ==
    IF b = <<>> THEN 0
    ELSE 256 * BigEndian(SubSeq(b, 1, Len(b) - 1)) + b[Len(b)]

\* mutant: two's complement is not undone
FromBytesUnsigned(val, signed) == BigEndian(val)

\* int.from_bytes(val, byteorder='big', signed=signed)
from_bytes(val, signed) ==
    LET u == BigEndian(val)
    IN IF signed /\ val # <<>> /\ 2 * u >= Pow256(Len(val))
       THEN u - Pow256(Len(val))
       ELSE u

\* mutant: b & 0xE0, which takes the tag 0x7_ for 0x6_
HighThreeBits(b) == (b \div 32) * 32

\* b & 0xF0 and b & 0x0F
HighNibble(b) == (b \div 16) * 16
LowNibble(b) == b % 16

\* mutant: a lone last byte is taken for a field
GetValueFromOneByte(m, offset) ==
    IF Len(m) - offset < 1
    THEN <<>>
    ELSE LET tag == m[offset + 1]
             size == LowNibble(tag)
         IN IF HighNibble(tag) \in {80, 96} /\ Len(m) - offset >= size
            THEN <<from_bytes(SubSeq(m, offset + 2, offset + size), HighNibble(tag) = 80)>>
            ELSE <<>>

\* the value as a one-element sequence, <<>> for None
_get_value(m, offset) ==
    IF Len(m) - offset < 2
    THEN <<>>
    ELSE LET tag == m[offset + 1]
             size == LowNibble(tag)
         IN IF HighNibble(tag) \in {80, 96} /\ Len(m) - offset >= size
            THEN <<from_bytes(SubSeq(m, offset + 2, offset + size), HighNibble(tag) = 80)>>
            ELSE <<>>

----------------------------------------------------------------------------
(* Configuration and the meter *)

\* the keys of offsets, in the order offsets.items() yields them
EntityOrder == <<"energy_imported", "energy_exported">>
Entities == {EntityOrder[i] : i \in 1..Len(EntityOrder)}

\* the entity offsets of the configurations considered (entities.yaml)
OffsetConfigs ==
    { [energy_imported |-> 4, energy_exported |-> 6],
      [energy_imported |-> 6, energy_exported |-> 4] }

\* a field of the meter's payload: tag byte and one value byte.  0x52 is a
\* signed integer of size 2, 0x72 a tag _get_value does not support.
MeterFields == { <<82, 1>>, <<82, 2>>, <<114, 1>> }
MeterPayloads == { f \o g : f \in MeterFields, g \in MeterFields }

\* the bytes that follow END_MESSAGE in a frame
Pad == <<0, 0, 0>>

\* a frame after its opening escape sequence
FrameBody(payload) ==
    START_MESSAGE \o payload \o ESCAPE_SEQUENCE \o END_MESSAGE \o Pad

\* one SML transport frame as the meter sends it
Frame(payload) == ESCAPE_SEQUENCE \o FrameBody(payload)

\* what else arrives on the line: a lone escape sequence, and a frame whose
\* closing escape sequence is not followed by END_MESSAGE
BrokenChunks ==
    { ESCAPE_SEQUENCE,
      ESCAPE_SEQUENCE \o START_MESSAGE \o <<82, 1, 82, 1>> \o ESCAPE_SEQUENCE \o <<0, 0, 0, 0>> }

Chunks == { Frame(p) : p \in MeterPayloads } \cup BrokenChunks

----------------------------------------------------------------------------
(* Dict objects.  last_values is the object SmlClient owns; deepcopy        *)
(* allocates another object.  A reference names an object, or is NoneRef.   *)

LvRef == "last_values"
NoneRef == "None"
SnapRefs == {"snapA", "snapB"}

\* mutant: only the first entity gets an entry
ZerosOfFirst == [e \in {EntityOrder[1]} |-> 0]

Zeros == [e \in Entities |-> 0]

\* the dict a reference points to
Deref(ref) == IF ref = LvRef THEN last_values ELSE objs[ref]

\* mutant: the dict itself is returned instead of a copy of it
ReturnLastValues(held) == LvRef

\* deepcopy returns a new object: one that the reference held does not name
deepcopy(held) == IF held = "snapA" THEN "snapB" ELSE "snapA"

\* the objects after writing value into the object ref names
Store(o, ref, value) == [r \in DOMAIN o |-> IF r = ref THEN value ELSE o[r]]

\* an object that no reference names any more is garbage: it is dropped, which
\* the model records by resetting its contents
Collect(o, ref) == [r \in DOMAIN o |-> IF r = ref THEN o[r] ELSE Zeros]

----------------------------------------------------------------------------
(* SmlClient.read *)

\* mutant: a field that does not decode is skipped and the loop goes on
RECURSIVE DecodeFromSkip(_, _, _, _)
DecodeFromSkip(m, i, lv, change) ==
    IF i > Len(EntityOrder)
    THEN [absent |-> FALSE, lv |-> lv, change |-> change]
    ELSE LET entity == EntityOrder[i]
             val == _get_value(m, offsets[entity])
         IN IF val = <<>>
            THEN DecodeFromSkip(m, i + 1, lv, change)
            ELSE DecodeFromSkip(m, i + 1, [lv EXCEPT ![entity] = val[1]],
                                change \/ val[1] # lv[entity])

\* mutant: the loop ends after the first entity and the call goes on
DecodeFromFirstOnly(m, i, lv, change) ==
    LET val == _get_value(m, offsets[EntityOrder[1]])
    IN IF val = <<>>
       THEN [absent |-> TRUE, lv |-> lv, change |-> change]
       ELSE [absent |-> FALSE, lv |-> [lv EXCEPT ![EntityOrder[1]] = val[1]],
             change |-> change \/ val[1] # lv[EntityOrder[1]]]

\* the for loop of lines 115..121 from the i-th entity on: lv is
\* self._last_values, written in place; absent is the return of line 119
RECURSIVE DecodeFrom(_, _, _, _)
DecodeFrom(m, i, lv, change) ==
    IF i > Len(EntityOrder)
    THEN [absent |-> FALSE, lv |-> lv, change |-> change]
    ELSE LET entity == EntityOrder[i]
             val == _get_value(m, offsets[entity])
         IN IF val = <<>>
            THEN [absent |-> TRUE, lv |-> lv, change |-> change]
            ELSE DecodeFrom(m, i + 1, [lv EXCEPT ![entity] = val[1]],
                            change \/ val[1] # lv[entity])

\* mutants of the condition of line 123
EmitOnBoth(change, t, last, interval) == change /\ t - last > interval
EmitDueInclusive(change, t, last, interval) == change \/ t - last >= interval
EmitOnChangeOnly(change, t, last, interval) == change
EmitDueLate(change, t, last, interval) == change \/ t - last > interval + 1

\* the condition of line 123
EmitDue(change, t, last, interval) == change \/ t - last > interval

\* mutant: the ValueError is not caught and ends the polling loop
FramingErrorEscapes ==
    /\ pc' = "done"
    /\ absent' = FALSE
    /\ stable' = FALSE
    /\ UNCHANGED <<states, last_values, last_time_updated, objs>>

\* lines 110..112: the ValueError of _read_message is caught, read returns None
OnFramingError ==
    /\ states' = NoneRef
    /\ pc' = "sleep"
    /\ absent' = FALSE
    /\ stable' = FALSE
    /\ UNCHANGED <<last_values, last_time_updated, objs>>

\* lines 114..125
OnMessage(m) ==
    LET d == DecodeFrom(m, 1, last_values, FALSE)
    IN /\ last_values' = d.lv
       /\ absent' = d.absent
       /\ stable' = (stable /\ ~d.absent /\ (msg = <<>> \/ ~d.change))
       /\ IF ~d.absent /\ EmitDue(d.change, now, last_time_updated, max_update_interval)
          THEN LET ref == deepcopy(states)
               IN /\ last_time_updated' = now
                  /\ states' = ref
                  /\ objs' = Store(objs, ref, d.lv)
                  /\ pc' = "publish"
          ELSE /\ states' = NoneRef
               /\ pc' = "sleep"
               /\ UNCHANGED <<last_time_updated, objs>>

\* no direct call of _get_value is being looked at
NoDecode == [msg |-> <<>>, offset |-> 0, returned |-> FALSE, value |-> <<>>]

NoCall ==
    [active |-> FALSE, input |-> <<>>, reads |-> 0, last_values |-> Zeros,
     last_time_updated |-> 0, states |-> NoneRef, held |-> Zeros,
     mqtt_values |-> Zeros, repeat |-> FALSE]

\* line 154, states = sml_client.read(), and the test of line 155
Read ==
    /\ pc = "read"
    /\ LET r == _read_message(stream)
       IN /\ stream' = r.rest
          /\ err' = r.err
          /\ msg' = r.msg
          /\ readTime' = now
          /\ call' = [active |-> TRUE, input |-> stream, reads |-> r.reads,
                      last_values |-> last_values,
                      last_time_updated |-> last_time_updated,
                      states |-> states,
                      held |-> IF states = NoneRef THEN Zeros ELSE Deref(states),
                      mqtt_values |-> mqtt_values,
                      repeat |-> /\ msg # <<>> /\ err = "none" /\ ~absent
                                 /\ r.err = "none" /\ r.msg = msg /\ readTime = now]
          /\ IF r.err # "none" THEN OnFramingError ELSE OnMessage(r.msg)
    /\ UNCHANGED <<offsets, max_update_interval, now, mqtt_values>>
    /\ UNCHANGED <<ser_open, decode>>

----------------------------------------------------------------------------
(* The polling loop of __main__ and MqttDevice *)

\* MqttDevice.set_states
set_states(values, snapshot) ==
    [e \in DOMAIN values |-> IF e \in DOMAIN snapshot THEN snapshot[e] ELSE values[e]]

\* lines 156..158: mqtt.set_states(states); mqtt.publish_updates()
Publish ==
    /\ pc = "publish"
    /\ mqtt_values' = set_states(mqtt_values, Deref(states))
    /\ pc' = "sleep"
    /\ UNCHANGED <<stream, offsets, max_update_interval, last_values, last_time_updated,
                   now, states, objs, err, msg, absent, readTime, stable, call>>
    /\ UNCHANGED <<ser_open, decode>>

\* line 159, time.sleep(polling_interval): the clock has moved on by dt when
\* read() is called again.  The cycle ends here.
Sleep ==
    /\ pc = "sleep"
    /\ \E dt \in 0..MaxSleep :
          /\ now + dt <= MaxTime
          /\ now' = now + dt
    /\ objs' = Collect(objs, states)
    /\ call' = NoCall
    /\ pc' = "read"
    /\ UNCHANGED <<stream, offsets, max_update_interval, last_values, last_time_updated,
                   states, mqtt_values, err, msg, absent, readTime, stable>>
    /\ UNCHANGED <<ser_open, decode>>

\* the meter sends bytes, which the serial port buffers.  Only read() looks at
\* the buffer, so the bytes that arrive during a cycle are added before it.
Transmit ==
    /\ pc = "read"
    /\ \E c \in Chunks :
          /\ Len(stream) + Len(c) <= MaxStream
          /\ stream' = stream \o c
    /\ UNCHANGED <<offsets, max_update_interval, last_values, last_time_updated, now, pc,
                   states, objs, mqtt_values, err, msg, absent, readTime, stable, call>>
    /\ UNCHANGED <<ser_open, decode>>

\* SmlClient.__init__ and the start of __main__
Constructed ==
    /\ offsets \in OffsetConfigs
    /\ max_update_interval \in 0..MaxInterval
    /\ last_values = Zeros
    /\ last_time_updated = 0
    /\ now = 0
    /\ pc = "read"
    /\ states = NoneRef
    /\ objs = [r \in SnapRefs |-> Zeros]
    /\ mqtt_values = Zeros
    /\ err = "none"
    /\ msg = <<>>
    /\ absent = FALSE
    /\ readTime = 0
    /\ stable = TRUE
    /\ call = NoCall
    /\ ser_open = TRUE

\* the line is silent when the client is constructed (reset_input_buffer)
Init == Constructed /\ stream = <<>> /\ decode = NoDecode

Next == Read \/ Publish \/ Sleep \/ Transmit

Spec == Init /\ [][Next]_vars

----------------------------------------------------------------------------
(* Byte streams for the frame reader: the specification SpecFraming starts  *)
(* with the whole stream on the line and runs the polling loop over it.     *)

FramingBytes == {0, 1, 27}

\* the byte strings over FramingBytes of length at most n
RECURSIVE ByteSeqs(_)
ByteSeqs(n) ==
    IF n = 0 THEN {<<>>}
    ELSE LET shorter == ByteSeqs(n - 1)
         IN shorter \cup {Append(b, x) : b \in shorter, x \in FramingBytes}

Garbage == ByteSeqs(MaxGarbage)
FreePayloads == ByteSeqs(MaxPayload)

\* ESCAPE + garbage + ESCAPE + START + payload + ESCAPE + END + 3 more bytes
GarbageThenFrame(g, p) == ESCAPE_SEQUENCE \o g \o Frame(p)

\* a candidate segment that does not start with START_MESSAGE, with the escape
\* sequence that ends it
NonStartSegments == {ESCAPE_SEQUENCE, <<0>> \o ESCAPE_SEQUENCE}

\* the concatenations of exactly k such segments
RECURSIVE SegRuns(_)
SegRuns(k) ==
    IF k = 0 THEN {<<>>}
    ELSE {b \o g : b \in SegRuns(k - 1), g \in NonStartSegments}

\* what follows the segments: nothing, or a well-formed frame
ResyncTails == {<<>>, FrameBody(<<82, 1, 82, 2>>)}

\* an escape sequence, k segments that do not start with START_MESSAGE, a tail
ResyncStreams(k) == {ESCAPE_SEQUENCE \o b \o t : b \in SegRuns(k), t \in ResyncTails}

\* a payload that holds the byte 0x1a
PayloadWithEnd == <<82, 26, 82, 1>>

\* one frame during which the line falls silent once, at any position
TimedOutFrames ==
    {SubSeq(Frame(PayloadWithEnd), 1, i) \o <<Timeout>>
         \o SubSeq(Frame(PayloadWithEnd), i + 1, Len(Frame(PayloadWithEnd))) :
         i \in 0..Len(Frame(PayloadWithEnd))}

\* the meter sends MaxFrames frames back to back
MaxFrames == 3

\* a frame is "clean", or its payload ends in 0x1b, or the 3 bytes after
\* END_MESSAGE end in 0x1b
FrameKinds == {"clean", "payload", "pad"}

\* the payload of the i-th frame: two fields with the value i; in a frame of
\* kind "payload" the second value is 0x1b
NthPayload(i, kind) == IF kind = "payload" THEN <<82, i, 82, 27>> ELSE <<82, i, 82, i>>

NthFrame(i, kind) ==
    ESCAPE_SEQUENCE \o START_MESSAGE \o NthPayload(i, kind) \o ESCAPE_SEQUENCE
        \o END_MESSAGE \o (IF kind = "pad" THEN <<0, 0, 27>> ELSE Pad)

FrameLen == Len(NthFrame(1, "clean"))

\* the frames i..MaxFrames of kinds v, back to back
RECURSIVE FramesFrom(_, _)
FramesFrom(i, v) ==
    IF i > MaxFrames THEN <<>> ELSE NthFrame(i, v[i]) \o FramesFrom(i + 1, v)

\* the stream as a reader finds it that starts k bytes into the first frame
BackToBackStreams ==
    {SubSeq(FramesFrom(1, v), k + 1, Len(FramesFrom(1, v))) :
         v \in [1..MaxFrames -> FrameKinds], k \in 0..(FrameLen - 1)}

FramingStreams ==
    {GarbageThenFrame(g, p) : g \in Garbage, p \in FreePayloads}
        \cup UNION {ResyncStreams(k) : k \in 0..MaxSegs}
        \cup TimedOutFrames
        \cup BackToBackStreams

InitFraming == Constructed /\ stream \in FramingStreams /\ decode = NoDecode

NextFraming == Read \/ Publish \/ Sleep

SpecFraming == InitFraming /\ [][NextFraming]_vars

----------------------------------------------------------------------------
(* C1: end-to-end framing *)

NoEscapeIn(b) == EndsOf(b, ESCAPE_SEQUENCE) = {}
NotEndingIn1B(b) == b = <<>> \/ b[Len(b)] # 27

\* the streams of the claim: garbage does not begin with START, neither
\* garbage nor payload contains ESCAPE
C1Cases ==
    { [input |-> GarbageThenFrame(g, p), garbage |-> g, payload |-> p] :
        g \in {x \in Garbage : ~startswith(x, START_MESSAGE) /\ NoEscapeIn(x)},
        p \in {x \in FreePayloads : NoEscapeIn(x)} }

\* those of them in which neither garbage nor payload ends in the byte 0x1B
C1CleanCases == {c \in C1Cases : NotEndingIn1B(c.garbage) /\ NotEndingIn1B(c.payload)}

\* C1 as stated: on ESCAPE+garbage+ESCAPE+START+payload+ESCAPE+END+3 bytes,
\* _read_message returns exactly payload.
C1_ReturnsPayloadOnly ==
    call.active =>
        \A c \in C1Cases : call.input = c.input => (err = "none" /\ msg = c.payload)

\* C1 as amended: when moreover neither garbage nor payload ends in 0x1B,
\* _read_message returns START + payload + ESCAPE, the candidate from the start
\* marker through the closing escape sequence, and the garbage is discarded.
C1_ReturnsCandidate ==
    call.active =>
        \A c \in C1CleanCases :
            call.input = c.input =>
                /\ err = "none"
                /\ msg = START_MESSAGE \o c.payload \o ESCAPE_SEQUENCE

C1_Witness ==
    /\ call.active
    /\ err = "none"
    /\ \E c \in C1CleanCases :
          /\ call.input = c.input
          /\ c.garbage # <<>>
          /\ c.payload # <<>>

----------------------------------------------------------------------------
(* C6: resync bound *)

\* the streams with at least 5 candidate segments after the first escape
\* sequence of which none starts with START
LongResyncStreams == UNION {ResyncStreams(k) : k \in 5..MaxSegs}

\* C6: a call of _read_message makes at most 7 transport reads (the first
\* escape sequence, at most 5 candidates, the end marker), and when the first 5
\* candidates do not start with START it raises the start-marker error after
\* the 5th candidate.
C6_ResyncBound ==
    call.active =>
        /\ call.reads <= 7
        /\ call.input \in LongResyncStreams => (err = "START" /\ call.reads = 6)

\* six segments that do not start with START, then a well-formed frame
C6_Witness ==
    /\ call.active
    /\ err = "START"
    /\ call.reads = 6
    /\ \E b \in SegRuns(6) :
          call.input = ESCAPE_SEQUENCE \o b \o FrameBody(<<82, 1, 82, 2>>)

----------------------------------------------------------------------------
(* The tracker: what read() decodes from the buffer of the last call *)

Values(m) == [e \in Entities |-> _get_value(m, offsets[e])]
AllDecode(m) == \A e \in Entities : Values(m)[e] # <<>>
Decoded(m) == [e \in Entities |-> Values(m)[e][1]]

\* the last call of read() got a frame and decoded every configured field
FullyDecoded == call.active /\ err = "none" /\ AllDecode(msg)

----------------------------------------------------------------------------
(* C2: abort is atomic *)

\* C2 as stated: when read() abandons a cycle because a decode is absent,
\* last_values and last_time_updated are as they were before the call.
C2_AbortLeavesTrackerUntouched ==
    (call.active /\ absent) =>
        /\ last_values = call.last_values
        /\ last_time_updated = call.last_time_updated

----------------------------------------------------------------------------
(* C3: partial-field policy *)

\* C3: when a frame was read and at least one configured offset decodes to
\* absent, read() returns no snapshot, whatever the other fields hold and
\* however long ago the last snapshot was.
C3_PartialFieldNoSnapshot ==
    (call.active /\ err = "none" /\ ~AllDecode(msg)) =>
        (states = NoneRef /\ pc = "sleep")

\* one field decoded to a new value, another is absent, the heartbeat is due
C3_Witness ==
    /\ call.active
    /\ err = "none"
    /\ \E e, f \in Entities :
          /\ Values(msg)[e] # <<>>
          /\ Values(msg)[e][1] # call.last_values[e]
          /\ Values(msg)[f] = <<>>
    /\ now - call.last_time_updated > max_update_interval
    /\ states = NoneRef

----------------------------------------------------------------------------
(* C4: emit decision *)

\* C4: when the frame is read and all fields decode, a snapshot is returned
\* iff a decoded value differs from last_values before the call or
\* now - last_time_updated > max_update_interval; last_time_updated is now
\* when a snapshot is returned and unchanged when none is.
C4_EmitDecision ==
    FullyDecoded =>
        /\ states # NoneRef <=>
              \/ \E e \in Entities : Decoded(msg)[e] # call.last_values[e]
              \/ now - call.last_time_updated > max_update_interval
        /\ states # NoneRef => last_time_updated = now
        /\ states = NoneRef => last_time_updated = call.last_time_updated

\* a changed value is reported although the heartbeat is not due
C4_Witness ==
    /\ FullyDecoded
    /\ call.last_values # Zeros
    /\ Decoded(msg) # call.last_values
    /\ now > call.last_time_updated
    /\ now - call.last_time_updated <= max_update_interval
    /\ states # NoneRef
    /\ last_time_updated = now

----------------------------------------------------------------------------
(* C5: heartbeat guarantee over a run *)

\* C5 as stated: while the meter is stable, the time between two consecutive
\* snapshots never exceeds max_update_interval.
C5_GapWithinInterval ==
    (call.active /\ stable /\ states # NoneRef) =>
        now - call.last_time_updated <= max_update_interval

\* C5 as amended: while the meter is stable, the time between two consecutive
\* snapshots never exceeds max_update_interval plus the duration of one
\* polling cycle.
C5_GapWithinIntervalPlusCycle ==
    (call.active /\ stable /\ states # NoneRef) =>
        now - call.last_time_updated <= max_update_interval + MaxSleep

\* a heartbeat snapshot of a stable meter, later than max_update_interval
C5_Witness ==
    /\ call.active
    /\ stable
    /\ states # NoneRef
    /\ Decoded(msg) = call.last_values
    /\ now - call.last_time_updated > max_update_interval

----------------------------------------------------------------------------
(* C7: framing errors are non-fatal and free of side effects *)

\* C7: when _read_message raises one of its three errors, read() returns no
\* snapshot, last_values and last_time_updated are unchanged, nothing is
\* published, and the loop goes on to the sleep that precedes the next cycle.
C7_FramingErrorSkipsCycle ==
    (call.active /\ err # "none") =>
        /\ states = NoneRef
        /\ last_values = call.last_values
        /\ last_time_updated = call.last_time_updated
        /\ mqtt_values = call.mqtt_values
        /\ pc = "sleep"

\* a framing error in a cycle after one that published
C7_Witness ==
    /\ call.active
    /\ err = "END"
    /\ call.states # NoneRef
    /\ mqtt_values # Zeros
    /\ pc = "sleep"

----------------------------------------------------------------------------
(* C8: idempotence *)

\* C8: when read() gets the buffer of the previous call again, fully
\* decodable, with no time elapsed, it returns no snapshot; and a call returns
\* a snapshot only if the values differ from last_values before the call or
\* the heartbeat interval had elapsed.
C8_Idempotent ==
    /\ (call.active /\ call.repeat) => states = NoneRef
    /\ (FullyDecoded /\ states # NoneRef) =>
          \/ Decoded(msg) # call.last_values
          \/ now - call.last_time_updated > max_update_interval

\* the second of two calls on the same buffer, the first of which returned a
\* snapshot
C8_Witness ==
    /\ call.active
    /\ call.repeat
    /\ call.states # NoneRef
    /\ states = NoneRef

----------------------------------------------------------------------------
(* C9: heartbeat step *)

\* C9: when the buffer decodes fully to the values of last_values and
\* now > last_time_updated + max_update_interval, read() returns a snapshot
\* of these values and sets last_time_updated to now.
C9_HeartbeatStep ==
    (/\ FullyDecoded
     /\ Decoded(msg) = call.last_values
     /\ now > call.last_time_updated + max_update_interval) =>
        /\ states # NoneRef
        /\ Deref(states) = Decoded(msg)
        /\ last_time_updated = now

C9_Witness ==
    /\ FullyDecoded
    /\ Decoded(msg) = call.last_values
    /\ now > call.last_time_updated + max_update_interval
    /\ states # NoneRef
    /\ last_time_updated = now

----------------------------------------------------------------------------
(* C10: snapshot independence.  The specification SpecCaller adds a caller  *)
(* of read() that writes into the dict it was handed.                       *)

\* states[e] = 9, by the holder of the reference, once the loop has published
\* the snapshot and before read() is called again
CallerMutate ==
    /\ pc = "sleep"
    /\ states # NoneRef
    /\ \E e \in Entities :
          IF states = LvRef
          THEN /\ last_values' = [last_values EXCEPT ![e] = 9]
               /\ UNCHANGED objs
          ELSE /\ objs' = [objs EXCEPT ![states][e] = 9]
               /\ UNCHANGED last_values
    /\ UNCHANGED <<stream, offsets, max_update_interval, last_time_updated, now, pc,
                   states, mqtt_values, err, msg, absent, readTime, stable, call>>
    /\ UNCHANGED <<ser_open, decode>>

NextCaller == Next \/ CallerMutate

SpecCaller == Init /\ [][NextCaller]_vars

\* C10: a call of read() leaves the contents of the snapshot returned before
\* as they were, a returned snapshot holds the values of last_values, and a
\* write into a returned snapshot changes neither last_values nor
\* last_time_updated.
C10_SnapshotIndependent ==
    /\ [](call.active /\ call.states # NoneRef => Deref(call.states) = call.held)
    /\ [](pc = "publish" /\ call.active => Deref(states) = last_values)
    /\ [][CallerMutate => UNCHANGED <<last_values, last_time_updated>>]_vars

\* read() has changed last_values while the caller holds the snapshot of the
\* call before, into which it has written
C10_Witness ==
    /\ call.active
    /\ call.states # NoneRef
    /\ \E e \in Entities : call.held[e] = 9
    /\ last_values # call.last_values
    /\ states # NoneRef

----------------------------------------------------------------------------
(* C11: key set of last_values *)

\* read() has not been called since construction
NoReadYet == stable /\ msg = <<>>

\* C11: in every reachable state last_values has exactly the keys of the
\* configured offsets, and right after construction every entry is zero.
C11_KeySet ==
    /\ DOMAIN last_values = DOMAIN offsets
    /\ NoReadYet => \A e \in DOMAIN offsets : last_values[e] = 0

\* a cycle abandoned at an absent field, after a cycle that published
C11_Witness ==
    /\ call.active
    /\ absent
    /\ mqtt_values # Zeros
    /\ last_values # Zeros

----------------------------------------------------------------------------
(* _get_value called directly on arbitrary buffers and offsets *)

\* the bytes after the tag byte number at most MaxBody
MaxBody == 2
\* the tag byte is preceded by at most MaxPrefix bytes
MaxPrefix == 1

TagBytes == 0..255
ValueBytes == {0, 1, 127, 128, 255}
Bodies == UNION {[1..n -> ValueBytes] : n \in 0..MaxBody}
ZeroBytes(n) == [i \in 1..n |-> 0]

\* buffers with any tag byte at any position, and buffers too short to hold one
DecodeBuffers ==
    {ZeroBytes(p) \o <<t>> \o b : p \in 0..MaxPrefix, t \in TagBytes, b \in Bodies}
        \cup {ZeroBytes(p) : p \in 0..MaxPrefix}

\* offsets before, at and after the tag byte, and past the end of the buffer
DecodeOffsets == 0..(MaxPrefix + 2)

Decode ==
    /\ ~decode.returned
    /\ decode' = [decode EXCEPT !.returned = TRUE,
                                !.value = _get_value(decode.msg, decode.offset)]
    /\ UNCHANGED <<stream, offsets, max_update_interval, last_values, last_time_updated,
                   now, pc, states, objs, mqtt_values, err, msg, absent, readTime, stable,
                   call, ser_open>>

InitDecode ==
    /\ Constructed
    /\ offsets = [energy_imported |-> 4, energy_exported |-> 6]
    /\ max_update_interval = 0
    /\ stream = <<>>
    /\ decode \in [msg : DecodeBuffers, offset : DecodeOffsets,
                   returned : {FALSE}, value : {<<>>}]

NextDecode == Decode

SpecDecode == InitDecode /\ [][NextDecode]_vars

\* the bytes of the buffer from the offset on
Remaining == Len(decode.msg) - decode.offset

\* the byte at the offset is a signed or unsigned integer tag
SupportedTagAtOffset ==
    /\ decode.offset < Len(decode.msg)
    /\ decode.msg[decode.offset + 1] \div 16 \in {5, 6}

----------------------------------------------------------------------------
(* C12: insufficient length *)

\* C12: _get_value returns None when fewer than 2 bytes remain from the
\* offset, and when the tag is a supported integer tag but fewer bytes than
\* its low nibble remain from the offset.
C12_ShortIsAbsent ==
    decode.returned =>
        /\ Remaining < 2 => decode.value = <<>>
        /\ (SupportedTagAtOffset /\ Remaining < decode.msg[decode.offset + 1] % 16)
               => decode.value = <<>>

\* a supported tag at the last byte, and an integer of size 5 cut after 3 bytes
C12_Witness ==
    /\ decode.returned
    /\ decode.value = <<>>
    /\ \/ SupportedTagAtOffset /\ Remaining = 1
       \/ /\ SupportedTagAtOffset
          /\ Remaining = 3
          /\ decode.msg[decode.offset + 1] = 85

----------------------------------------------------------------------------
(* C13: unsupported tag *)

\* C13: _get_value returns None whenever the high nibble of the byte at the
\* offset is neither 0x5 nor 0x6, whatever the low nibble is and however many
\* bytes remain.
C13_UnsupportedIsAbsent ==
    (decode.returned /\ decode.offset < Len(decode.msg) /\ ~SupportedTagAtOffset)
        => decode.value = <<>>

\* the tag 0x72 followed by enough bytes for an integer of size 2
C13_Witness ==
    /\ decode.returned
    /\ decode.offset < Len(decode.msg)
    /\ decode.msg[decode.offset + 1] = 114
    /\ Remaining >= 2
    /\ decode.value = <<>>

----------------------------------------------------------------------------
(* C14: signed round trip *)

\* the n bytes of u, most significant first
RECURSIVE ToBytes(_, _)
ToBytes(u, n) == IF n = 0 THEN <<>> ELSE Append(ToBytes(u \div 256, n - 1), u % 256)

\* v is representable in n bytes in two's complement
Representable(v, n) ==
    IF n = 0 THEN v = 0 ELSE -(Pow256(n) \div 2) <= v /\ v < Pow256(n) \div 2

\* the n byte big-endian two's complement encoding of v
Encode(v, n) == ToBytes(IF v < 0 THEN v + Pow256(n) ELSE v, n)

\* the extreme and the small values among those representable in n bytes
SignedSamples(n) ==
    {v \in {-(Pow256(n) \div 2), 1 - (Pow256(n) \div 2), -1, 0, 1, (Pow256(n) \div 2) - 1} :
        Representable(v, n)}

\* the buffer holds the bytes f at the offset
HoldsAtOffset(f) ==
    /\ decode.offset + Len(f) <= Len(decode.msg)
    /\ SubSeq(decode.msg, decode.offset + 1, decode.offset + Len(f)) = f

\* the sizes whose values fit the buffers considered
FieldSizes == 1..(MaxBody + 1)

\* C14 as stated: a buffer holding at the offset the tag 0x50|size and the
\* size-1 byte encoding of v decodes at the offset to v.
C14_RoundTrip ==
    decode.returned =>
        \A size \in FieldSizes : \A v \in SignedSamples(size - 1) :
            HoldsAtOffset(<<80 + size>> \o Encode(v, size - 1))
                => decode.value = <<v>>

\* C14: a buffer holding at the offset the tag 0x50|size and the size-1 byte
\* encoding of v, with at least 2 bytes from the offset on, decodes at the
\* offset to v.
C14_RoundTripOfTwoBytes ==
    (decode.returned /\ Remaining >= 2) =>
        \A size \in FieldSizes : \A v \in SignedSamples(size - 1) :
            HoldsAtOffset(<<80 + size>> \o Encode(v, size - 1))
                => decode.value = <<v>>

\* the most negative 2 byte value, after one byte of prefix
C14_Witness ==
    /\ decode.returned
    /\ decode.offset = 1
    /\ HoldsAtOffset(<<83>> \o Encode(-32768, 2))
    /\ decode.value = <<-32768>>

----------------------------------------------------------------------------
(* C15: only complete frames are returned *)

\* what the transport reads of the call took from the line
Consumed == SubSeq(call.input, 1, Len(call.input) - Len(stream))

\* b arrived in one piece and the byte right after it was END_MESSAGE
FollowedByEnd(b) ==
    \E i \in 0..Len(Consumed) :
        /\ i + Len(b) + 1 <= Len(Consumed)
        /\ SubSeq(Consumed, i + 1, i + Len(b)) = b
        /\ Consumed[i + Len(b) + 1] = END_MESSAGE[1]

\* C15: whatever the transport does, timeouts included, _read_message
\* returns a buffer only if the buffer begins with START_MESSAGE, ends with
\* an actual ESCAPE_SEQUENCE, and the byte right after that escape sequence
\* is END_MESSAGE.
C15_OnlyCompleteFrames ==
    (call.active /\ err = "none") =>
        /\ startswith(msg, START_MESSAGE)
        /\ endswith(msg, ESCAPE_SEQUENCE)
        /\ FollowedByEnd(msg)

----------------------------------------------------------------------------
(* C16: no mixed snapshot *)

\* C16: a snapshot read() returns holds, for every configured entity, the
\* value decoded from the buffer of that same call, whatever the cycles
\* before it did.
C16_NoMixedSnapshot ==
    (call.active /\ states # NoneRef) =>
        \A e \in Entities : Values(msg)[e] = <<Deref(states)[e]>>

\* a snapshot returned by a call that found last_values half-written by an
\* abandoned cycle
C16_Witness ==
    /\ call.active
    /\ states # NoneRef
    /\ call.last_values # call.mqtt_values
    /\ \E e \in Entities : Deref(states)[e] # call.last_values[e]

----------------------------------------------------------------------------
(* C17: resynchronisation *)

\* a call that starts k bytes into frame i of a back-to-back stream
C17Cases == [v : [1..MaxFrames -> FrameKinds], i : 1..MaxFrames, k : 0..(FrameLen - 1)]

C17Input ==
    [c \in C17Cases |->
        SubSeq(FramesFrom(c.i, c.v), c.k + 1, Len(FramesFrom(c.i, c.v)))]

\* the first frame the call sees from its opening escape sequence on
C17Next == [c \in C17Cases |-> IF c.k = 0 THEN c.i ELSE c.i + 1]

\* the call returns that frame within the bound on reads and leaves the
\* stream at the frame after it
Resynchronised(c) ==
    /\ err = "none"
    /\ msg = START_MESSAGE \o NthPayload(C17Next[c], c.v[C17Next[c]]) \o ESCAPE_SEQUENCE
    /\ stream = FramesFrom(C17Next[c] + 1, c.v)
    /\ call.reads <= MAX_READ + 2

\* C17 as stated: on every stream of back-to-back frames, from every byte
\* position, the call returns the first frame it sees whole and leaves the
\* stream at the next frame boundary.
C17_Resynchronises ==
    call.active =>
        \A c \in C17Cases :
            (call.input = C17Input[c] /\ C17Next[c] <= MaxFrames) => Resynchronised(c)

\* the cases in which no payload and no 3 bytes after END_MESSAGE end in 0x1b
C17CleanCases == {c \in C17Cases : \A n \in 1..MaxFrames : c.v[n] = "clean"}

\* C17: on every stream of back-to-back frames in which no payload and no
\* 3 bytes after END_MESSAGE end in 0x1b, from every byte position, the call
\* returns the first frame it sees whole and leaves the stream at the next
\* frame boundary.
C17_ResynchronisesOnCleanFrames ==
    call.active =>
        \A c \in C17CleanCases :
            (call.input = C17Input[c] /\ C17Next[c] <= MaxFrames) => Resynchronised(c)

\* a call that started in the payload of frame 1 returned frame 2
C17_Witness ==
    /\ call.active
    /\ call.input = C17Input[[v |-> [n \in 1..MaxFrames |-> "clean"], i |-> 1, k |-> 10]]
    /\ err = "none"
    /\ msg = START_MESSAGE \o NthPayload(2, "clean") \o ESCAPE_SEQUENCE
    /\ stream = FramesFrom(3, [n \in 1..MaxFrames |-> "clean"])

----------------------------------------------------------------------------
(* The ways out of the polling loop: lines 160..164 *)

\* line 154: read() raises an exception that is not a ValueError, such as a
\* serial.SerialException of the transport; `except Exception` logs it
ReadRaises ==
    /\ pc = "read"
    /\ pc' = "finally"
    /\ UNCHANGED <<stream, offsets, max_update_interval, last_values, last_time_updated,
                   now, states, objs, mqtt_values, err, msg, absent, readTime, stable,
                   call, ser_open, decode>>

\* lines 156..157: set_states raises before it has written, or
\* publish_updates raises after set_states has written
PublishRaises ==
    /\ pc = "publish"
    /\ mqtt_values' \in {mqtt_values, set_states(mqtt_values, Deref(states))}
    /\ pc' = "finally"
    /\ UNCHANGED <<stream, offsets, max_update_interval, last_values, last_time_updated,
                   now, states, objs, err, msg, absent, readTime, stable, call,
                   ser_open, decode>>

\* a KeyboardInterrupt anywhere in the loop: no except clause matches it and
\* the finally clause runs
Interrupt ==
    /\ pc \in {"read", "publish", "sleep"}
    /\ pc' = "finally"
    /\ UNCHANGED <<stream, offsets, max_update_interval, last_values, last_time_updated,
                   now, states, objs, mqtt_values, err, msg, absent, readTime, stable,
                   call, ser_open, decode>>

\* mutant: the finally clause leaves the port open
TeardownWithoutClose ==
    /\ pc = "finally"
    /\ pc' = "done"
    /\ UNCHANGED <<stream, offsets, max_update_interval, last_values, last_time_updated,
                   now, states, objs, mqtt_values, err, msg, absent, readTime, stable,
                   call, ser_open, decode>>

\* lines 162..164: sml_client.__del__() closes the port, mqtt.exit(), and the
\* process ends
Teardown ==
    /\ pc = "finally"
    /\ ser_open' = FALSE
    /\ pc' = "done"
    /\ UNCHANGED <<stream, offsets, max_update_interval, last_values, last_time_updated,
                   now, states, objs, mqtt_values, err, msg, absent, readTime, stable,
                   call, decode>>

NextExit == Read \/ Publish \/ Sleep \/ ReadRaises \/ PublishRaises \/ Interrupt \/ Teardown

\* the finally clause runs to its end once it is entered
SpecExit == InitFraming /\ [][NextExit]_vars /\ WF_vars(Teardown)

----------------------------------------------------------------------------
(* C18: serial handle release *)

\* C18: every way out of the polling loop leads to the port being closed
\* before the process ends, the process has ended whenever the port is
\* closed, and no step of the program, a read in particular, is taken once
\* the port is closed.
C18_HandleReleased ==
    /\ [](pc = "done" => ~ser_open)
    /\ [](~ser_open => pc = "done")
    /\ [][ser_open]_vars
    /\ (pc = "finally" ~> ~ser_open)

\* the process ended with the port closed after it had published a snapshot
C18_Witness ==
    /\ pc = "done"
    /\ ~ser_open
    /\ mqtt_values # Zeros

----------------------------------------------------------------------------
(* C19: no change is lost *)

\* Every snapshot read() returns is published before the next call, so
\* between calls mqtt_values is the most recently returned snapshot, and all
\* zeros when none has been returned yet.

\* C19: between calls of read(), last_values equals the most recently
\* returned snapshot; and a call whose buffer decodes fully to values that
\* differ from the most recently returned snapshot returns a snapshot.
C19_NoChangeLost ==
    /\ pc = "read" => last_values = mqtt_values
    /\ (FullyDecoded /\ Decoded(msg) # call.mqtt_values) => states # NoneRef

====
